---- MODULE Spec2Model ----
(***************************************************************************)
(* The HIP hardware manager of AdaptiveCpp                                 *)
(* (src/runtime/hip/hip_hardware_manager.cpp): the architecture-string     *)
(* parser, hip_hardware_manager and hip_hardware_context.                  *)
(*                                                                         *)
(* Strings are sequences of one-character strings.  TLC's integers are 32  *)
(* bits wide, so a std::size_t argument is held as the pair [hi, lo] that  *)
(* stands for hi * 2^31 + lo with 0 <= lo < 2^31.                          *)
(***************************************************************************)
EXTENDS Integers, Sequences, FiniteSets, TLC

VARIABLES
  device_name,   \* the argument of device_arch_string_to_int (parser runs)
  arch_result,   \* what that call produced
  runtime,       \* the vendor runtime: what its three queries answer now
  build,         \* what this build does on an integer division by zero,
                 \* once a run has shown it
  mgr,           \* the hip_hardware_manager object
  channel,       \* the errors register_error has stored so far
  ret            \* the last call on the manager or a context: its result
                 \* and the diagnostics it emitted (warnings and errors)

vars == <<device_name, arch_result, runtime, build, mgr, channel, ret>>

-----------------------------------------------------------------------------
(* Bounds of the model.                                                    *)

\* longest free tail of a generated architecture string
MaxTail == 2
\* most devices the vendor runtime reports
MaxDevices == 2
\* most diagnostics the queries after construction add to the channel
MaxQueryErrors == 1

-----------------------------------------------------------------------------
(* std::string and std::stoi.                                              *)

\* std::numeric_limits<int>::max(), the range std::stoi checks against
INT_MAX == 2147483647

DecDigit == <<"0", "1", "2", "3", "4", "5", "6", "7", "8", "9">>
LowerHex == <<"a", "b", "c", "d", "e", "f">>
UpperHex == <<"A", "B", "C", "D", "E", "F">>

\* std::isxdigit in the "C" locale
isxdigit(c) ==
  \/ \E i \in 1..10 : DecDigit[i] = c
  \/ \E i \in 1..6 : LowerHex[i] = c
  \/ \E i \in 1..6 : UpperHex[i] = c

\* the value strtol gives one base-16 digit
HexDigitValue(c) ==
  IF \E i \in 1..10 : DecDigit[i] = c
    THEN (CHOOSE i \in 1..10 : DecDigit[i] = c) - 1
    ELSE IF \E i \in 1..6 : LowerHex[i] = c
      THEN (CHOOSE i \in 1..6 : LowerHex[i] = c) + 9
      ELSE (CHOOSE i \in 1..6 : UpperHex[i] = c) + 9

\* std::string::npos, held as -1
npos == -1

\* s.find(p): the first 0-based position where p occurs in s, else npos
find(s, p) ==
  LET hits == {i \in 0..(Len(s) - Len(p)) :
                 \A k \in 1..Len(p) : s[i + k] = p[k]}
  IN IF Len(p) <= Len(s) /\ hits # {}
       THEN CHOOSE i \in hits : \A j \in hits : i <= j
       ELSE npos

\* s.erase(pos, n): s without the n characters from 0-based pos (clamped)
erase(s, pos, n) ==
  LET last == IF pos + n > Len(s) THEN Len(s) ELSE pos + n
  IN SubSeq(s, 1, pos) \o SubSeq(s, last + 1, Len(s))

\* s.erase(pos): s cut at 0-based pos
erase_from(s, pos) == SubSeq(s, 1, pos)

Returned(v) == [kind |-> "value", v |-> v, what |-> "-"]
Thrown(what) == [kind |-> "throw", v |-> 0, what |-> what]

\* strtol's digit loop in base 16 from 1-based position i with accumulator
\* acc: stops at the first non-digit; reports a value beyond int's range
RECURSIVE strtol16(_, _, _)
strtol16(s, i, acc) ==
  IF i > Len(s) \/ ~isxdigit(s[i])
    THEN [overflow |-> FALSE, v |-> acc, next |-> i]
    ELSE IF acc > (INT_MAX - HexDigitValue(s[i])) \div 16
      THEN [overflow |-> TRUE, v |-> INT_MAX, next |-> i]
      ELSE strtol16(s, i + 1, acc * 16 + HexDigitValue(s[i]))

\* std::stoi(s, nullptr, 16) on a string with no leading space, sign or 0x
\* (the caller has checked every character with isxdigit): it throws
\* std::invalid_argument when no digit was converted and std::out_of_range
\* when the value does not fit an int
stoi16(s) ==
  LET r == strtol16(s, 1, 0)
  IN IF r.next = 1 THEN Thrown("std::invalid_argument")
     ELSE IF r.overflow THEN Thrown("std::out_of_range")
     ELSE Returned(r.v)

-----------------------------------------------------------------------------
(* The architecture-string parser.                                         *)

prefix == <<"g", "f", "x">>

device_arch_string_to_int(name) ==
  IF find(name, prefix) # 0
    THEN Returned(0)
    ELSE
      LET substr0 == erase(name, 0, Len(prefix))
          colon_pos == find(substr0, <<":">>)
          substr == IF colon_pos # npos THEN erase_from(substr0, colon_pos)
                                       ELSE substr0
      IN IF \E i \in 1..Len(substr) : ~isxdigit(substr[i])
           THEN Returned(0)
           ELSE stoi16(substr)

-----------------------------------------------------------------------------
(* The vendor runtime and the settings, as the constructor sees them.      *)

hipSuccess == "hipSuccess"
hipErrorNoDevice == "hipErrorNoDevice"
hipErrorInvalidDevice == "hipErrorInvalidDevice"

\* a value-initialised hipDeviceProp_t (std::make_unique<hipDeviceProp_t>())
ZeroProps ==
  [gcnArchName |-> <<>>, concurrentKernels |-> 0, multiProcessorCount |-> 0,
   maxThreadsDim |-> <<0, 0, 0>>, maxGridSize |-> <<0, 0, 0>>,
   maxThreadsPerBlock |-> 0, warpSize |-> 0, clockRate |-> 0,
   totalGlobalMem |-> 0, l2CacheSize |-> 0, totalConstMem |-> 0,
   sharedMemPerBlock |-> 0]

\* property records a vendor runtime may report (sizes kept below 2^31)
PropsGfx908 ==
  [ZeroProps EXCEPT !.gcnArchName = <<"g", "f", "x", "9", "0", "8">>,
     !.concurrentKernels = 1, !.multiProcessorCount = 120,
     !.maxThreadsDim = <<1024, 1024, 1024>>,
     !.maxGridSize = <<65535, 65535, 65535>>,
     !.maxThreadsPerBlock = 1024, !.warpSize = 64, !.clockRate = 1502000,
     !.totalGlobalMem = 1073741824, !.l2CacheSize = 8388608,
     !.totalConstMem = 65536, !.sharedMemPerBlock = 65536]

PropsGfx90a ==
  [PropsGfx908 EXCEPT
     !.gcnArchName = <<"g", "f", "x", "9", "0", "a", ":", "s", "r", "a", "m",
                       "e", "c", "c", "+", ":", "x", "n", "a", "c", "k", "-">>,
     !.multiProcessorCount = 104, !.clockRate = 1700000]

\* a device whose architecture name is the bare prefix
PropsBareGfx ==
  [PropsGfx908 EXCEPT !.gcnArchName = <<"g", "f", "x">>,
     !.concurrentKernels = 0, !.warpSize = 32, !.multiProcessorCount = 8]

\* the runtime's devices, by model name, and the record each reports
VendorDevices == {"MI100", "MI210", "BareGfx"}
VendorProps(device) ==
  CASE device = "MI100" -> PropsGfx908
    [] device = "MI210" -> PropsGfx90a
    [] device = "BareGfx" -> PropsBareGfx

\* what hipGetDeviceProperties answers for one device
DeviceStates ==
  {[status |-> hipSuccess, device |-> d] : d \in VendorDevices}
    \cup {[status |-> hipErrorInvalidDevice, device |-> "-"]}

\* what hipDriverGetVersion answers
DriverStates ==
  {[status |-> hipSuccess, version |-> 50422804],
   [status |-> hipSuccess, version |-> 60140092],
   [status |-> hipErrorInvalidDevice, version |-> 0]}

RECURSIVE SeqsUpTo(_, _)
SeqsUpTo(S, n) ==
  IF n = 0 THEN {<<>>}
  ELSE LET shorter == SeqsUpTo(S, n - 1)
       IN shorter \cup {Append(q, x) : q \in shorter, x \in S}

RuntimeStates ==
  [countStatus : {hipSuccess, hipErrorNoDevice, hipErrorInvalidDevice},
   devices : SeqsUpTo(DeviceStates, MaxDevices),
   driver : DriverStates]

\* hipGetDeviceCount(&num_devices): the status and what it wrote
hipGetDeviceCount(rt) == [err |-> rt.countStatus, out |-> Len(rt.devices)]

\* hipGetDeviceProperties(p, dev): the status and *p afterwards; a failing
\* query leaves the caller's record as it was
hipGetDeviceProperties(rt, before, dev) ==
  IF dev + 1 \in DOMAIN rt.devices /\ rt.devices[dev + 1].status = hipSuccess
    THEN [err |-> hipSuccess, prop |-> VendorProps(rt.devices[dev + 1].device)]
    ELSE [err |-> IF dev + 1 \in DOMAIN rt.devices
                    THEN rt.devices[dev + 1].status
                    ELSE hipErrorInvalidDevice,
          prop |-> before]

\* hipDriverGetVersion(&v): the status and v afterwards
hipDriverGetVersion(rt, before) ==
  IF rt.driver.status = hipSuccess
    THEN [err |-> hipSuccess, out |-> rt.driver.version]
    ELSE [err |-> rt.driver.status, out |-> before]

-----------------------------------------------------------------------------
(* The shared error channel.                                               *)

MsgMask == "HIP backend does not support device visibility masks"
MsgCount == "Could not obtain number of devices"
MsgProps == "Could not query device properties"
MsgInvalid == "Attempt to access invalid device detected"
MsgDriver == "Querying driver version failed"

print_warning(msg, code) == [via |-> "print_warning", msg |-> msg, code |-> code]
register_error(msg, code) == [via |-> "register_error", msg |-> msg, code |-> code]

\* what reaches the stored errors: register_error stores, print_warning
\* only prints
Registered(diagnostics) ==
  SelectSeq(diagnostics, LAMBDA d : d.via = "register_error")

\* the stored errors that queries (not construction) registered
QueryErrors(ch) ==
  SelectSeq(ch, LAMBDA d : d.msg \in {MsgInvalid, MsgDriver})

-----------------------------------------------------------------------------
(* hip_hardware_context.                                                   *)

HardwarePlatforms == {"rocm", "cuda"}
api_platform_hip == "hip"

backend_descriptor(hw, api) == [hw_platform |-> hw, api |-> api]
hip_allocator(desc, dev) == [backend |-> desc, dev |-> dev]
hip_event_pool(dev) == [dev |-> dev]

\* the allocator's backend descriptor
allocator_descriptor == backend_descriptor("rocm", api_platform_hip)

\* the constructor: the context, the errors it registered, and whether it
\* left by an exception (the errors are registered before the parser runs)
hip_hardware_context(rt, dev) ==
  LET q == hipGetDeviceProperties(rt, ZeroProps, dev)
      errors == IF q.err # hipSuccess
                  THEN <<register_error(MsgProps, q.err)>> ELSE <<>>
      arch == device_arch_string_to_int(q.prop.gcnArchName)
  IN [threw |-> arch.kind = "throw", what |-> arch.what, errors |-> errors,
      obj |-> [_dev |-> dev, _properties |-> q.prop,
               _allocator |-> hip_allocator(allocator_descriptor, dev),
               _event_pool |-> hip_event_pool(dev),
               _numeric_architecture |-> arch.v]]

-----------------------------------------------------------------------------
(* hip_hardware_manager: construction.                                     *)

\* the warning of the visibility-mask test
mask_diagnostics(st) ==
  IF st.visibility_mask_has_hip THEN <<print_warning(MsgMask, "-")>> ELSE <<>>

\* the warning of a failed device-count query
count_diagnostics_any_failure(err) ==
  IF err # hipSuccess THEN <<print_warning(MsgCount, err)>> ELSE <<>>

count_diagnostics(err) ==
  IF err # hipSuccess /\ err # hipErrorNoDevice
    THEN <<print_warning(MsgCount, err)>> ELSE <<>>

\* the loop _devices.emplace_back(dev) for dev = from .. num_devices - 1
RECURSIVE emplace_devices(_, _, _, _)
emplace_devices(rt, num_devices, from, acc) ==
  IF from >= num_devices THEN acc
  ELSE LET c == hip_hardware_context(rt, from)
       IN IF c.threw
            THEN [threw |-> TRUE, what |-> c.what,
                  errors |-> acc.errors \o c.errors, devices |-> <<>>]
            ELSE emplace_devices(rt, num_devices, from + 1,
                   [threw |-> FALSE, what |-> "-",
                    errors |-> acc.errors \o c.errors,
                    devices |-> Append(acc.devices, c.obj)])

hip_hardware_manager(st, rt, hw_platform) ==
  LET q == hipGetDeviceCount(rt)
      num_devices == IF q.err # hipSuccess THEN 0 ELSE q.out
      first == mask_diagnostics(st) \o count_diagnostics(q.err)
      built == emplace_devices(rt, num_devices, 0,
                 [threw |-> FALSE, what |-> "-", errors |-> first,
                  devices |-> <<>>])
  IN [threw |-> built.threw, what |-> built.what, errors |-> built.errors,
      obj |-> [_hw_platform |-> hw_platform, _devices |-> built.devices]]

-----------------------------------------------------------------------------
(* hip_hardware_manager: queries.                                          *)

size_t(hi, lo) == [hi |-> hi, lo |-> lo]

\* index >= n for a std::size_t index and a container size n
size_ge(index, n) == index.hi > 0 \/ index.lo >= n

\* static_cast<int>(index): the low 32 bits, read as two's complement
static_cast_int(index) ==
  IF index.hi % 2 = 0 THEN index.lo ELSE (index.lo - INT_MAX) - 1

nullptr == [null |-> TRUE, slot |-> 0]
address_of_device(slot) == [null |-> FALSE, slot |-> slot]

Result(val, errors) == [val |-> val, errors |-> errors]

get_num_devices(m) == Len(m._devices)

get_device_off_by_one(m, index) ==
  IF index.hi > 0 \/ index.lo > Len(m._devices)
    THEN Result(nullptr, <<register_error(MsgInvalid, "-")>>)
    ELSE Result(address_of_device(index.lo), <<>>)

get_device(m, index) ==
  IF size_ge(index, Len(m._devices))
    THEN Result(nullptr, <<register_error(MsgInvalid, "-")>>)
    ELSE Result(address_of_device(index.lo), <<>>)

device_id(desc, id) == [backend |-> desc, id |-> id]

get_device_id_fixed_platform(m, index) ==
  Result(device_id(backend_descriptor("rocm", api_platform_hip),
                   static_cast_int(index)),
         IF size_ge(index, Len(m._devices))
           THEN <<register_error(MsgInvalid, "-")>> ELSE <<>>)

get_device_id(m, index) ==
  Result(device_id(backend_descriptor(m._hw_platform, api_platform_hip),
                   static_cast_int(index)),
         IF size_ge(index, Len(m._devices))
           THEN <<register_error(MsgInvalid, "-")>> ELSE <<>>)

get_num_platforms == 1

-----------------------------------------------------------------------------
(* hip_hardware_context: queries.                                          *)

\* *_properties: the record captured by the constructor
snapshot_requeried(ctx) ==
  hipGetDeviceProperties(runtime, ctx._properties, ctx._dev).prop

snapshot(ctx) == ctx._properties

get_allocator(ctx) == ctx._allocator
get_event_pool(ctx) == ctx._event_pool
get_max_kernel_concurrency(ctx) == snapshot(ctx).concurrentKernels + 1
get_device_arch(ctx) == snapshot(ctx).gcnArchName

device_support_aspect ==
  {"emulated_local_memory", "host_unified_memory", "error_correction",
   "global_mem_cache", "global_mem_cache_read_only",
   "global_mem_cache_read_write", "images", "little_endian",
   "sub_group_independent_forward_progress", "usm_device_allocations",
   "usm_host_allocations", "usm_atomic_host_allocations",
   "usm_shared_allocations", "usm_atomic_shared_allocations",
   "usm_system_allocations", "execution_timestamps", "sscp_kernels",
   "work_item_independent_forward_progress"}

\* the build macro of the sscp_kernels aspect
HIPSYCL_WITH_SSCP_COMPILER == TRUE

has(ctx, aspect) ==
  CASE aspect = "sscp_kernels" -> HIPSYCL_WITH_SSCP_COMPILER
    [] aspect \in {"global_mem_cache", "global_mem_cache_read_write",
                   "little_endian", "sub_group_independent_forward_progress",
                   "usm_device_allocations", "usm_host_allocations",
                   "usm_shared_allocations", "execution_timestamps"} -> TRUE
    [] OTHER -> FALSE

\* std::numeric_limits<std::size_t>::max(), held as -1 (all bits set)
SIZE_MAX == -1
\* static_cast<int>(backend_id::hip)
backend_id_hip == 1

FromSnapshot ==
  {"max_compute_units", "max_global_size0", "max_global_size1",
   "max_global_size2", "max_group_size0", "max_group_size1",
   "max_group_size2", "max_group_size", "max_num_sub_groups",
   "max_clock_speed", "max_malloc_size", "global_mem_cache_size",
   "global_mem_size", "max_constant_buffer_size", "local_mem_size",
   "architecture"}
VectorWidth4 == {"preferred_vector_width_char", "native_vector_width_char"}
VectorWidth2 ==
  {"preferred_vector_width_half", "preferred_vector_width_short",
   "native_vector_width_half", "native_vector_width_short"}
VectorWidth1 ==
  {"preferred_vector_width_double", "preferred_vector_width_float",
   "preferred_vector_width_int", "preferred_vector_width_long",
   "native_vector_width_double", "native_vector_width_float",
   "native_vector_width_int", "native_vector_width_long"}
AlwaysZero ==
  {"max_read_image_args", "max_write_image_args", "image2d_max_width",
   "image2d_max_height", "image3d_max_width", "image3d_max_height",
   "image3d_max_depth", "image_max_buffer_size", "image_max_array_size",
   "max_samplers", "partition_max_sub_devices"}
AlwaysSizeMax ==
  {"max_parameter_size", "max_constant_args", "printf_buffer_size"}
OtherFixed ==
  {"needs_dimension_flip", "address_bits", "mem_base_addr_align",
   "global_mem_cache_line_size", "vendor_id", "backend_id"}

device_uint_property ==
  FromSnapshot \cup VectorWidth4 \cup VectorWidth2 \cup VectorWidth1
    \cup AlwaysZero \cup AlwaysSizeMax \cup OtherFixed

\* an int / int whose divisor is 0 is undefined behaviour
DivisionByZero == [kind |-> "undefined", v |-> 0, what |-> "division by zero"]
int_div(a, b) == IF b = 0 THEN DivisionByZero ELSE Returned(a \div b)

get_property(ctx, prop) ==
  LET p == snapshot(ctx)
  IN CASE prop = "max_compute_units" -> Returned(p.multiProcessorCount)
       [] prop = "max_global_size0" ->
            Returned(p.maxThreadsDim[1] * p.maxGridSize[1])
       [] prop = "max_global_size1" ->
            Returned(p.maxThreadsDim[2] * p.maxGridSize[2])
       [] prop = "max_global_size2" ->
            Returned(p.maxThreadsDim[3] * p.maxGridSize[3])
       [] prop = "max_group_size0" -> Returned(p.maxThreadsDim[1])
       [] prop = "max_group_size1" -> Returned(p.maxThreadsDim[2])
       [] prop = "max_group_size2" -> Returned(p.maxThreadsDim[3])
       [] prop = "max_group_size" -> Returned(p.maxThreadsPerBlock)
       [] prop = "max_num_sub_groups" ->
            int_div(p.maxThreadsPerBlock, p.warpSize)
       [] prop = "needs_dimension_flip" -> Returned(1)
       [] prop \in VectorWidth4 -> Returned(4)
       [] prop \in VectorWidth2 -> Returned(2)
       [] prop \in VectorWidth1 -> Returned(1)
       [] prop = "max_clock_speed" -> Returned(p.clockRate \div 1000)
       [] prop = "max_malloc_size" -> Returned(p.totalGlobalMem)
       [] prop = "address_bits" -> Returned(64)
       [] prop \in AlwaysZero -> Returned(0)
       [] prop \in AlwaysSizeMax -> Returned(SIZE_MAX)
       [] prop = "mem_base_addr_align" -> Returned(8)
       [] prop = "global_mem_cache_line_size" -> Returned(128)
       [] prop = "global_mem_cache_size" -> Returned(p.l2CacheSize)
       [] prop = "global_mem_size" -> Returned(p.totalGlobalMem)
       [] prop = "max_constant_buffer_size" -> Returned(p.totalConstMem)
       [] prop = "local_mem_size" -> Returned(p.sharedMemPerBlock)
       [] prop = "vendor_id" -> Returned(1022)
       [] prop = "architecture" -> Returned(ctx._numeric_architecture)
       [] prop = "backend_id" -> Returned(backend_id_hip)

device_uint_list_property == {"sub_group_sizes"}

get_list_property(ctx, prop) == <<snapshot(ctx).warpSize>>

\* std::to_string(int)
RECURSIVE to_string_digits(_)
to_string_digits(n) ==
  IF n < 10 THEN <<DecDigit[n + 1]>>
  ELSE Append(to_string_digits(n \div 10), DecDigit[(n % 10) + 1])

to_string(n) ==
  IF n < 0 THEN <<"-">> \o to_string_digits(0 - n) ELSE to_string_digits(n)

get_driver_version_silent(rt) ==
  LET q == hipDriverGetVersion(rt, 0)
  IN Result(to_string(q.out), <<>>)

get_driver_version(rt) ==
  LET q == hipDriverGetVersion(rt, 0)
  IN Result(to_string(q.out),
            IF q.err # hipSuccess
              THEN <<register_error(MsgDriver, q.err)>> ELSE <<>>)

-----------------------------------------------------------------------------------------------------------------------------------------------------
(* The manager's life: construction, then queries, while the vendor        *)
(* runtime's answers may change.                                           *)

NotParsed == [kind |-> "none", v |-> 0, what |-> "-"]
NoManager ==
  [phase |-> "none", what |-> "-", _hw_platform |-> "-", _devices |-> <<>>]
NoCall == [op |-> "none", arg |-> "-", val |-> "-", emitted |-> <<>>]

\* what a build does on the undefined division: the processor traps
\* (SIGFPE ends the process) or the quotient reads as 0.  A build does the
\* same every time; build is "unknown" until a run executes the division.
DivisionByZeroOutcomes == {"SIGFPE", "quotient_zero"}
Signalled == [kind |-> "signal", v |-> 0, what |-> "SIGFPE"]

outcome(r, b) ==
  IF r.kind = "undefined"
    THEN (IF b = "SIGFPE" THEN Signalled ELSE Returned(0))
    ELSE r

\* std::size_t arguments tried: around the device count, and 2^31, 2^32,
\* 2^32 + 1
IndexInputs ==
  {size_t(0, i) : i \in 0..(MaxDevices + 1)}
    \cup {size_t(1, 0), size_t(2, 0), size_t(2, 1)}

\* the values of setting::visibility_mask, by whether they name the HIP backend
Settings == [visibility_mask_has_hip : BOOLEAN]

\* what a device's reported properties may change to
ChangedDevices == {"MI100", "MI210"}

Init ==
  /\ device_name = <<>>
  /\ arch_result = NotParsed
  /\ runtime \in RuntimeStates
  /\ build = "unknown"
  /\ mgr = NoManager
  /\ channel = <<>>
  /\ ret = NoCall

Constructed == mgr.phase = "constructed"
Slots == 0..(Len(mgr._devices) - 1)
Context(slot) == mgr._devices[slot + 1]

\* a query may register its errors while the channel has room for them
Room(errors) == Len(QueryErrors(channel)) + Len(errors) <= MaxQueryErrors

Construct(st, hw_platform) ==
  /\ mgr.phase = "none"
  /\ LET c == hip_hardware_manager(st, runtime, hw_platform)
     IN /\ mgr' = [phase |-> IF c.threw THEN "threw" ELSE "constructed",
                   what |-> c.what,
                   _hw_platform |-> c.obj._hw_platform,
                   _devices |-> c.obj._devices]
        /\ channel' = channel \o Registered(c.errors)
        /\ ret' = [op |-> "hip_hardware_manager",
                   arg |-> [settings |-> st, hw_platform |-> hw_platform],
                   val |-> c.what, emitted |-> c.errors]
  /\ UNCHANGED <<device_name, arch_result, runtime, build>>

\* the vendor runtime starts to report other properties for a device
RuntimePropsChange(dev, d) ==
  /\ Constructed
  /\ dev + 1 \in DOMAIN runtime.devices
  /\ runtime.devices[dev + 1].status = hipSuccess
  /\ runtime.devices[dev + 1].device # d
  /\ runtime' = [runtime EXCEPT !.devices[dev + 1].device = d]
  /\ UNCHANGED <<device_name, arch_result, build, mgr, channel, ret>>

\* the driver is replaced, or its version query starts or stops failing
DriverChange(d) ==
  /\ Constructed
  /\ runtime.driver # d
  /\ runtime' = [runtime EXCEPT !.driver = d]
  /\ UNCHANGED <<device_name, arch_result, build, mgr, channel, ret>>

Answer(op, arg, r) ==
  /\ Constructed
  /\ Room(r.errors)
  /\ channel' = channel \o Registered(r.errors)
  /\ ret' = [op |-> op, arg |-> arg, val |-> r.val, emitted |-> r.errors]
  /\ UNCHANGED <<device_name, arch_result, runtime, build, mgr>>

GetNumDevices ==
  Answer("get_num_devices", "-", Result(get_num_devices(mgr), <<>>))

GetNumPlatforms ==
  Answer("get_num_platforms", "-", Result(get_num_platforms, <<>>))

GetDevice(index) == Answer("get_device", index, get_device(mgr, index))

GetDeviceId(index) == Answer("get_device_id", index, get_device_id(mgr, index))

GetAllocator(slot) ==
  Answer("get_allocator", slot, Result(get_allocator(Context(slot)), <<>>))

GetEventPool(slot) ==
  Answer("get_event_pool", slot, Result(get_event_pool(Context(slot)), <<>>))

GetMaxKernelConcurrency(slot) ==
  Answer("get_max_kernel_concurrency", slot,
         Result(get_max_kernel_concurrency(Context(slot)), <<>>))

Has(slot, aspect) ==
  Answer("has", [slot |-> slot, aspect |-> aspect],
         Result(has(Context(slot), aspect), <<>>))

\* a division by zero shows what the build does; a trap ends the process
GetProperty(slot, prop) ==
  /\ Constructed
  /\ LET r == get_property(Context(slot), prop)
     IN \E b \in IF r.kind # "undefined" THEN {build}
                 ELSE IF build = "unknown" THEN DivisionByZeroOutcomes
                 ELSE {build} :
          /\ build' = b
          /\ ret' = [op |-> "get_property",
                     arg |-> [slot |-> slot, prop |-> prop],
                     val |-> outcome(r, b), emitted |-> <<>>]
          /\ mgr' = IF outcome(r, b).kind = "signal"
                      THEN [mgr EXCEPT !.phase = "terminated", !.what = "SIGFPE"]
                      ELSE mgr
  /\ UNCHANGED <<device_name, arch_result, runtime, channel>>

GetListProperty(slot, prop) ==
  Answer("get_list_property", [slot |-> slot, prop |-> prop],
         Result(get_list_property(Context(slot), prop), <<>>))

GetDriverVersion(slot) ==
  Answer("get_driver_version", slot, get_driver_version(runtime))

\* construction and the manager's own queries
NextManager ==
  \/ \E st \in Settings, hw \in HardwarePlatforms : Construct(st, hw)
  \/ GetNumDevices
  \/ GetNumPlatforms
  \/ \E index \in IndexInputs : GetDevice(index)
  \/ \E index \in IndexInputs : GetDeviceId(index)

Next ==
  \/ NextManager
  \/ \E dev \in 0..(MaxDevices - 1), d \in ChangedDevices :
       RuntimePropsChange(dev, d)
  \/ \E d \in DriverStates : DriverChange(d)
  \/ \E slot \in Slots : GetAllocator(slot)
  \/ \E slot \in Slots : GetEventPool(slot)
  \/ \E slot \in Slots : GetMaxKernelConcurrency(slot)
  \/ \E slot \in Slots, aspect \in device_support_aspect : Has(slot, aspect)
  \/ \E slot \in Slots, prop \in device_uint_property : GetProperty(slot, prop)
  \/ \E slot \in Slots, prop \in device_uint_list_property :
       GetListProperty(slot, prop)
  \/ \E slot \in Slots : GetDriverVersion(slot)

Spec == Init /\ [][Next]_vars

\* the manager alone
SpecManager == Init /\ [][NextManager]_vars

-----
(* Runs of the parser alone, on generated architecture strings.            *)

ArchPrefixes ==
  {<<>>, <<"g", "f", "x">>, <<"G", "f", "x">>, <<"g", "f">>,
   <<"x", "g", "f", "x">>}
ArchChunks ==
  {<<>>, <<"9", "0">>, <<"7", "f", "f", "f", "f", "f", "f">>,
   <<"8", "0", "0", "0", "0", "0", "0">>}
TailAlphabet == {"0", "a", "F", "g", ":", "+"}

ArchNameInputs ==
  {pre \o chunk \o tail :
     pre \in ArchPrefixes, chunk \in ArchChunks,
     tail \in SeqsUpTo(TailAlphabet, MaxTail)}

InitParser ==
  /\ device_name \in ArchNameInputs
  /\ arch_result = NotParsed
  /\ runtime = [countStatus |-> hipErrorNoDevice, devices |-> <<>>,
                driver |-> [status |-> hipErrorInvalidDevice, version |-> 0]]
  /\ build = "unknown"
  /\ mgr = NoManager
  /\ channel = <<>>
  /\ ret = NoCall

ParseArch ==
  /\ arch_result = NotParsed
  /\ arch_result' = device_arch_string_to_int(device_name)
  /\ UNCHANGED <<device_name, runtime, build, mgr, channel, ret>>

NextParser == ParseArch

SpecParser == InitParser /\ [][NextParser]_vars

-----------------------------------------------------------------------------
(* Properties.                                                             *)

AfterConstruction == ret.op = "hip_hardware_manager"
\* a step that is a call of op: it leaves its result in ret, and the vendor
\* runtime does not change during it
IsCall(op) == ret'.op = op /\ runtime' = runtime
\* vars, with the name of the last call first: the results of two calls are
\* compared only when they are results of the same operation
varsByCall == <<ret.op, vars>>
InBounds(index) == index.hi = 0 /\ index.lo < Len(mgr._devices)
InvalidAccess == register_error(MsgInvalid, "-")
MaskWarning == print_warning(MsgMask, "-")

\* C1 as stated: when the device-count query answers "no device", the
\* constructed manager has no device and construction emitted no diagnostic;
\* when it answers any other failure, the manager has no device and
\* construction emitted exactly one diagnostic; whatever the visibility mask.
C1_DiagnosticsWhateverTheMask ==
  (AfterConstruction /\ runtime.countStatus # hipSuccess) =>
    /\ Constructed
    /\ get_num_devices(mgr) = 0
    /\ Len(ret.emitted) = IF runtime.countStatus = hipErrorNoDevice THEN 0 ELSE 1

\* C1 amended: a failing device-count query leaves the manager with no
\* device; construction emits the visibility-mask warning exactly when the
\* mask names the HIP backend, followed by one device-count warning exactly
\* when the status is a failure other than "no device", and nothing else.
C1_DiagnosticsOfFailedCount ==
  (AfterConstruction /\ runtime.countStatus # hipSuccess) =>
    /\ Constructed
    /\ get_num_devices(mgr) = 0
    /\ ret.emitted =
         (IF ret.arg.settings.visibility_mask_has_hip
            THEN <<MaskWarning>> ELSE <<>>)
         \o (IF runtime.countStatus = hipErrorNoDevice
               THEN <<>>
               ELSE <<print_warning(MsgCount, runtime.countStatus)>>)
    /\ channel = <<>>

C1_Witness ==
  /\ AfterConstruction
  /\ Constructed
  /\ runtime.countStatus = hipErrorNoDevice
  /\ Len(runtime.devices) = MaxDevices
  /\ ~ret.arg.settings.visibility_mask_has_hip
  /\ ret.emitted = <<>>
  /\ get_num_devices(mgr) = 0

\* C2: get_device with an index at or beyond the device count registers
\* exactly one invalid-access error and returns null; with an index below
\* the count it returns the context of that slot and registers nothing; in
\* both cases the manager is left as it was.
C2_GetDevice ==
  [][IsCall("get_device") =>
       /\ mgr' = mgr
       /\ IF InBounds(ret'.arg)
            THEN /\ ret'.val = address_of_device(ret'.arg.lo)
                 /\ ret'.emitted = <<>>
                 /\ channel' = channel
            ELSE /\ ret'.val = nullptr
                 /\ ret'.emitted = <<InvalidAccess>>
                 /\ channel' = Append(channel, InvalidAccess)]_varsByCall

C2_Witness ==
  /\ ret.op = "get_device"
  /\ Len(mgr._devices) = MaxDevices
  /\ ret.arg = size_t(0, Len(mgr._devices))
  /\ ret.val = nullptr
  /\ channel # <<>>
  /\ channel[Len(channel)] = InvalidAccess

\* what get_device_id owes for every index: the manager's platform tag and
\* the HIP API tag; for an index in bounds no error, the index itself, and
\* a round trip through get_device to the context whose native index it is;
\* for an index out of bounds exactly one invalid-access error
DeviceIdTagsAndErrors ==
  LET index == ret.arg
      id == ret.val
  IN /\ id.backend.hw_platform = mgr._hw_platform
     /\ id.backend.api = "hip"
     /\ IF InBounds(index)
          THEN /\ ret.emitted = <<>>
               /\ id.id = index.lo
               /\ get_device(mgr, size_t(0, id.id)).val
                    = get_device(mgr, index).val
               /\ ~get_device(mgr, index).val.null
               /\ Context(get_device(mgr, index).val.slot)._dev = index.lo
          ELSE ret.emitted = <<InvalidAccess>>

\* C3 as stated: ... and for an index out of bounds the identifier still
\* carries the given index.
C3_IdentifierCarriesIndex ==
  ret.op = "get_device_id" =>
    /\ DeviceIdTagsAndErrors
    /\ ret.arg.hi = 0
    /\ ret.val.id = ret.arg.lo

\* C3 amended: the identifier carries the given index when the index fits
\* an int; a larger index is carried as its low 32 bits read as a signed
\* int (2^31 becomes INT_MIN, 2^32 becomes 0).  The rest is as stated.
C3_IdentifierCarriesIndexAsInt ==
  ret.op = "get_device_id" =>
    /\ DeviceIdTagsAndErrors
    /\ (ret.arg.hi % 2 = 0 => ret.val.id = ret.arg.lo)
    /\ (ret.arg.hi % 2 = 1 => ret.val.id + INT_MAX + 1 = ret.arg.lo)

C3_Witness ==
  /\ ret.op = "get_device_id"
  /\ mgr._hw_platform = "cuda"
  /\ Len(mgr._devices) = MaxDevices
  /\ ret.arg = size_t(0, MaxDevices - 1)
  /\ ret.val = device_id(backend_descriptor("cuda", "hip"), MaxDevices - 1)
  /\ ret.emitted = <<>>

\* the reference algorithm of the parser
RefHasPrefix(name) ==
  Len(name) >= 3 /\ name[1] = "g" /\ name[2] = "f" /\ name[3] = "x"
RefRemainder(name) ==
  LET rest == SubSeq(name, 4, Len(name))
      colons == {i \in 1..Len(rest) : rest[i] = ":"}
  IN IF colons = {} THEN rest
     ELSE SubSeq(rest, 1, (CHOOSE i \in colons : \A j \in colons : i <= j) - 1)
RefHexDigits ==
  ("0" :> 0) @@ ("1" :> 1) @@ ("2" :> 2) @@ ("3" :> 3) @@ ("4" :> 4)
    @@ ("5" :> 5) @@ ("6" :> 6) @@ ("7" :> 7) @@ ("8" :> 8) @@ ("9" :> 9)
    @@ ("a" :> 10) @@ ("b" :> 11) @@ ("c" :> 12) @@ ("d" :> 13)
    @@ ("e" :> 14) @@ ("f" :> 15) @@ ("A" :> 10) @@ ("B" :> 11)
    @@ ("C" :> 12) @@ ("D" :> 13) @@ ("E" :> 14) @@ ("F" :> 15)
RECURSIVE RefBase16(_)
RefBase16(digits) ==
  IF digits = <<>> THEN 0
  ELSE RefBase16(SubSeq(digits, 1, Len(digits) - 1)) * 16
         + RefHexDigits[digits[Len(digits)]]
RefAllHex(digits) == \A i \in 1..Len(digits) : digits[i] \in DOMAIN RefHexDigits
Parsed == arch_result.kind # "none"

\* C4: on a name whose hex part is not empty (or that lacks the prefix)
\* the parser returns 0 when the prefix is missing or a character of the
\* hex part is not a hex digit, else the base-16 value of the hex part.
C4_AgreesWithReference ==
  (Parsed /\ ~(RefHasPrefix(device_name) /\ RefRemainder(device_name) = <<>>)) =>
    /\ arch_result.kind = "value"
    /\ arch_result.v =
         IF ~RefHasPrefix(device_name) \/ ~RefAllHex(RefRemainder(device_name))
           THEN 0
           ELSE RefBase16(RefRemainder(device_name))

\* C5: on "gfx" and on "gfx:<suffix>", whose hex part is empty, the parser
\* returns 0 and raises nothing.
C5_EmptyHexPartGivesZero ==
  (Parsed /\ RefHasPrefix(device_name) /\ RefRemainder(device_name) = <<>>) =>
    arch_result = Returned(0)

\* C6: when the device-count query succeeds with n, construction completes
\* with n devices; each device whose property query fails costs one
\* diagnostic and gets a context with the zeroed record and architecture 0.
C6_ConstructionCompletes ==
  (AfterConstruction /\ runtime.countStatus = hipSuccess) =>
    /\ Constructed
    /\ get_num_devices(mgr) = Len(runtime.devices)
    /\ \A k \in Slots :
         runtime.devices[k + 1].status # hipSuccess =>
           /\ Context(k)._properties = ZeroProps
           /\ Context(k)._numeric_architecture = 0
    /\ Len(SelectSeq(ret.emitted, LAMBDA d : d.msg = MsgProps))
         = Cardinality({k \in Slots : runtime.devices[k + 1].status # hipSuccess})

\* C7: on a context whose property query failed (it holds the zeroed
\* record) get_property returns a number for every scalar property, and
\* get_max_kernel_concurrency returns 1.
C7_DegradedContextAnswers ==
  /\ (ret.op = "get_property"
        /\ Context(ret.arg.slot)._properties = ZeroProps) =>
       ret.val.kind = "value"
  /\ (ret.op = "get_max_kernel_concurrency"
        /\ Context(ret.arg)._properties = ZeroProps) =>
       ret.val = 1

\* the queries whose answer may not change between two calls
StableQueries ==
  {"get_num_devices", "get_num_platforms", "get_device", "get_allocator",
   "get_event_pool", "get_max_kernel_concurrency", "has", "get_property",
   "get_list_property"}

\* C8: after construction no step changes the manager's platform tag or its
\* devices (their snapshots, architecture identifiers, allocators and event
\* pools), and a query repeated with the same argument gives the same
\* answer, with only changes of the vendor runtime in between.
C8_QueriesChangeNothing ==
  [][Constructed =>
       /\ mgr'._devices = mgr._devices
       /\ mgr'._hw_platform = mgr._hw_platform
       /\ (ret.op \in StableQueries /\ ret'.op = ret.op /\ ret'.arg = ret.arg) =>
            ret'.val = ret.val]_varsByCall

C8_Witness ==
  /\ Constructed
  /\ ret.op = "get_property"
  /\ ret.arg = [slot |-> 0, prop |-> "max_compute_units"]
  /\ runtime.devices[1].status = hipSuccess
  /\ ret.val # Returned(VendorProps(runtime.devices[1].device).multiProcessorCount)
  /\ ret.val = Returned(Context(0)._properties.multiProcessorCount)

\* the number a string of decimal digits denotes
RefDecimalDigits ==
  ("0" :> 0) @@ ("1" :> 1) @@ ("2" :> 2) @@ ("3" :> 3) @@ ("4" :> 4)
    @@ ("5" :> 5) @@ ("6" :> 6) @@ ("7" :> 7) @@ ("8" :> 8) @@ ("9" :> 9)
RECURSIVE RefDecimal(_)
RefDecimal(digits) ==
  IF digits = <<>> THEN 0
  ELSE RefDecimal(SubSeq(digits, 1, Len(digits) - 1)) * 10
         + RefDecimalDigits[digits[Len(digits)]]

\* C9: every call of get_driver_version asks the vendor runtime: while the
\* query succeeds the result is the version the runtime reports at that
\* call and nothing is registered; while it fails the result is "0" and
\* exactly one error is registered; the manager is left as it was.
C9_DriverVersionIsLive ==
  [][IsCall("get_driver_version") =>
       /\ mgr' = mgr
       /\ ret'.val # <<>>
       /\ \A i \in 1..Len(ret'.val) : ret'.val[i] \in DOMAIN RefDecimalDigits
       /\ IF runtime.driver.status = hipSuccess
            THEN /\ RefDecimal(ret'.val) = runtime.driver.version
                 /\ ret'.emitted = <<>>
                 /\ channel' = channel
            ELSE /\ ret'.val = <<"0">>
                 /\ ret'.emitted
                      = <<register_error(MsgDriver, runtime.driver.status)>>
                 /\ channel' = channel \o ret'.emitted]_varsByCall

C9_Witness ==
  /\ ret.op = "get_driver_version"
  /\ runtime.driver = [status |-> hipSuccess, version |-> 60140092]
  /\ ret.val = <<"6", "0", "1", "4", "0", "0", "9", "2">>
  /\ channel # <<>>
  /\ channel[Len(channel)].msg = MsgDriver

\* C10: the (platform tag, API tag, index) the allocator of slot i was
\* constructed with is the identifier get_device_id(i) returns.
C10_AllocatorNamesTheDevice ==
  Constructed =>
    \A i \in Slots :
      LET id == get_device_id(mgr, size_t(0, i)).val
      IN get_allocator(Context(i)) = hip_allocator(id.backend, id.id)

====
